---- MODULE Spec2Model ----
(***************************************************************************)
(* Donation order and payment reconciliation of the Amaanitvam Foundation  *)
(* site: the views donate, payment_callback, verify_payment and            *)
(* donate_page of core/views.py acting on the Donation table, with the     *)
(* Razorpay client as the environment.                                     *)
(*                                                                         *)
(* The table has one column for the gateway order id.  donate and          *)
(* payment_callback address it as razorpay_order_id, donate_page and       *)
(* verify_payment as order_id (migration 0008 replaces the one by the      *)
(* other); likewise transaction_id / payment_id and donor_name / name.     *)
(* The row below keeps one field for each pair, and both the status        *)
(* column of the newer schema and the paid flag of the older one.          *)
(*                                                                         *)
(* Money: an amount is held in hundredths of a rupee ("cents" below, the   *)
(* value of a decimal literal with two fraction digits); the gateway works *)
(* in paise, which is the same unit, so a lossless conversion is the       *)
(* identity on these numbers and every deviation is visible.               *)
(***************************************************************************)
EXTENDS Integers, Sequences, FiniteSets, TLC

\* ---------------------------------------------------------------- bounds
\* Rows the Donation table can hold (gateway orders issued) in a run.
MaxOrders == 1
\* Verification requests that can be in progress at the same time.
MaxWorkers == 2
\* Rows the table can hold in the runs that only look at how rows are stored.
MaxStored == 2
\* Calls of send_donation_receipt in a run.
MaxReceipts == 2
\* In the runs over a range of amounts: the largest decimal literal, in
\* hundredths of a rupee, and the largest integer literal, in rupees.
MaxCents == 120
MaxRupees == 11

\* ------------------------------------------------------- binary64 floats
\* 2^n for small n.
RECURSIVE Pow2(_)
Pow2(n) == IF n = 0 THEN 1 ELSE 2 * Pow2(n - 1)

\* 2^n modulo m, without leaving the machine integers.
RECURSIVE Pow2Mod(_, _)
Pow2Mod(n, m) == IF n = 0 THEN 1 % m ELSE (2 * Pow2Mod(n - 1, m)) % m

\* floor(log2(n / d)) for n >= d > 0.
RECURSIVE FloorLog2(_, _)
FloorLog2(n, d) == IF n >= 2 * d THEN 1 + FloorLog2(n, 2 * d) ELSE 0

\* int(float(s) * 100) of views.donate for a literal s worth c >= 100 cents,
\* in IEEE-754 binary64 with round-to-nearest-even.  float(s) is the double
\* nearest to c/100; with sc = 52 - floor(log2(c/100)) it is q / 2^sc, and
\* q * 100 = c * 2^sc + e with e the signed remainder below.  The product is
\* rounded to the doubles around c, whose spacing is `below` units of 2^-sc
\* on the low side, and int() truncates: the result is c - 1 exactly when
\* the product rounds to the double under c.
FloatTimes100Trunc(c) ==
  LET k == FloorLog2(c, 100)
      sc == 52 - k
      t == (c * Pow2Mod(sc, 100)) % 100
      e == IF t < 50 THEN 0 - t ELSE 100 - t
      kk == FloorLog2(c, 1)
      ulp == Pow2(kk - k)
      below == IF c = Pow2(kk) THEN ulp \div 2 ELSE ulp
  IN IF e < 0 /\ 2 * (0 - e) > below THEN c - 1 ELSE c

\* ---------------------------------------------------------------- inputs
\* request.POST.get('amount'): absent, a non-numeric text, the literals
\* "nan", "inf", "-inf", an integer literal ("10", value in rupees) or a
\* decimal literal with two fraction digits ("10.20", value in cents).
AmountInputs ==
  {[kind |-> k, val |-> 0] : k \in {"missing", "text", "nan", "inf", "neginf"}}
  \cup {[kind |-> "int", val |-> r] : r \in {0 - 1, 0, 10}}
  \cup {[kind |-> "dec", val |-> c] : c \in {50, 1020}}

\* The donor fields of a submission.
Donors == {[name |-> "Asha", email |-> "asha@example.org", phone |-> "9000000000"]}

Methods == {"POST", "GET"}

\* float(amount): "ok" with the value in cents, "nan", "inf", "neginf", or the
\* exception raised (TypeError for None, ValueError for a non-number).
FloatOf(a) ==
  CASE a.kind = "missing" -> [r |-> "TypeError", cents |-> 0]
    [] a.kind = "text" -> [r |-> "ValueError", cents |-> 0]
    [] a.kind = "nan" -> [r |-> "nan", cents |-> 0]
    [] a.kind = "inf" -> [r |-> "inf", cents |-> 0]
    [] a.kind = "neginf" -> [r |-> "neginf", cents |-> 0]
    [] a.kind = "int" -> [r |-> "ok", cents |-> 100 * a.val]
    [] a.kind = "dec" -> [r |-> "ok", cents |-> a.val]

\* int(x) of a float worth c cents: truncation toward zero, in rupees.
IntOfFloat(c) == IF c >= 0 THEN c \div 100 ELSE 0 - ((0 - c) \div 100)

\* Faulty variant of DonateValidate: every number above zero passes
\* (float(amount) > 0 in place of int(float(amount)) >= 1).
DonateValidate_AnyPositive(a) ==
  LET f == FloatOf(a)
  IN CASE f.r \in {"TypeError", "ValueError"} -> "reject"
       [] f.r = "nan" -> "reject"
       [] f.r = "inf" -> "pass"
       [] f.r = "neginf" -> "reject"
       [] f.r = "ok" -> IF f.cents <= 0 THEN "reject" ELSE "pass"

\* The validation of views.donate: "pass", "reject" (the 400 response) or
\* "crash" (an exception the handler does not catch: int() of an infinity
\* raises OverflowError, which is neither ValueError nor TypeError).
DonateValidate(a) ==
  LET f == FloatOf(a)
  IN CASE f.r \in {"TypeError", "ValueError"} -> "reject"
       [] f.r = "nan" -> "reject"
       [] f.r \in {"inf", "neginf"} -> "crash"
       [] f.r = "ok" -> IF IntOfFloat(f.cents) < 1 THEN "reject" ELSE "pass"

\* amount_paise = int(amount_decimal * 100)
AmountPaise(a) == FloatTimes100Trunc(FloatOf(a).cents)

\* Faulty variant of DonatePageParse: a decimal literal is parsed too and cut
\* to its whole rupees, int(float(amount)).
DonatePageParse_CutsDecimals(a) ==
  CASE a.kind = "missing" -> [r |-> "ok", rupees |-> 0]
    [] a.kind = "int" -> [r |-> "ok", rupees |-> a.val]
    [] a.kind = "dec" -> [r |-> "ok", rupees |-> IntOfFloat(a.val)]
    [] OTHER -> [r |-> "ValueError", rupees |-> 0]

\* int(request.POST.get('amount', 0)) of views.donate_page: only an integer
\* literal parses; an absent field is 0.
DonatePageParse(a) ==
  CASE a.kind = "missing" -> [r |-> "ok", rupees |-> 0]
    [] a.kind = "int" -> [r |-> "ok", rupees |-> a.val]
    [] OTHER -> [r |-> "ValueError", rupees |-> 0]

\* ----------------------------------------------------------------- state
VARIABLES
  donations,   \* the Donation table: a sequence of rows, in creation order
  gwOrders,    \* the gateway's orders: gwOrders[i] is the paise of order id i
  inflight,    \* per worker: the verification request it is in the middle of
  receipts,    \* the calls of send_donation_receipt so far: the donation
               \* handed to it and what the call did
  last         \* the most recent request answered and what the caller got

vars == <<donations, gwOrders, inflight, receipts, last>>

\* Requests served at the same time (worker threads / processes).
Workers == 1..MaxWorkers
\* Payment ids a verification request can carry.
PaymentIds == {1, 2}
\* Order ids a verification request can name: the ids the gateway issues in a
\* run (an id it has not issued yet matches no row).
OrderIdInputs == 1..MaxOrders

\* A blank payment id / signature column.
NoPayment == 0
NoSignature == <<>>

\* Faulty variant of NewDonation: the row keeps only the whole rupees of the amount.
NewDonation_WholeRupees(pk, oid, donor, cents) ==
  [id |-> pk, razorpay_order_id |-> oid,
   donor_name |-> donor.name, donor_email |-> donor.email,
   donor_phone |-> donor.phone, amount |-> 100 * IntOfFloat(cents),
   status |-> "pending",
   transaction_id |-> NoPayment, razorpay_signature |-> NoSignature,
   paid |-> FALSE]

\* Donation.objects.create(...) of views.donate.
NewDonation(pk, oid, donor, cents) ==
  [id |-> pk, razorpay_order_id |-> oid,
   donor_name |-> donor.name, donor_email |-> donor.email,
   donor_phone |-> donor.phone, amount |-> cents, status |-> "pending",
   transaction_id |-> NoPayment, razorpay_signature |-> NoSignature,
   paid |-> FALSE]

\* Faulty variant of NewLegacyDonation: the order id is not passed to create
\* and the column keeps its blank default.
NewLegacyDonation_BlankOrderId(pk, oid, rupees) ==
  [id |-> pk, razorpay_order_id |-> 0,
   donor_name |-> "Donor", donor_email |-> "", donor_phone |-> "",
   amount |-> 100 * rupees, status |-> "pending",
   transaction_id |-> NoPayment, razorpay_signature |-> NoSignature,
   paid |-> FALSE]

\* Donation.objects.create(name="Donor", amount=amount, order_id=order_id)
NewLegacyDonation(pk, oid, rupees) ==
  [id |-> pk, razorpay_order_id |-> oid,
   donor_name |-> "Donor", donor_email |-> "", donor_phone |-> "",
   amount |-> 100 * rupees, status |-> "pending",
   transaction_id |-> NoPayment, razorpay_signature |-> NoSignature,
   paid |-> FALSE]

NoAmount == [kind |-> "missing", val |-> 0]

\* What the caller of a request observes (http, status, error), with what
\* the request carried (method, amount, order, payment, sigOK: whether its
\* signature is the gateway's for its order and payment id) and whether the
\* handler called the gateway's order creation (gwCreate) and its payment
\* fetch (gwFetch): "none", "ok" or "failed"; and how many times it called
\* verify_payment_signature (sigCalls).  For payment_success: the
\* donation_id of the query string (lookup) and the id of the donation the
\* page was rendered with (shown, 0 for none).
Response(view, method, http, status, error) ==
  [view |-> view, method |-> method, http |-> http, status |-> status,
   error |-> error, amount |-> NoAmount, order |-> 0, payment |-> NoPayment,
   sigOK |-> FALSE, gwCreate |-> "none", gwFetch |-> "none", sigCalls |-> 0,
   lookup |-> [kind |-> "missing", id |-> 0], shown |-> 0]

\* A worker that is between requests.
Idle == [pc |-> "idle"]

Init ==
  /\ donations = <<>>
  /\ gwOrders = <<>>
  /\ inflight = [w \in Workers |-> Idle]
  /\ receipts = <<>>
  /\ last = Response("none", "GET", 0, "", "")

\* ------------------------------------------------------------ views.donate
\* Faulty variant of GatewayCreate: the call is made again after the first
\* attempt, which the gateway had served, and a second order is issued.
GatewayCreate_Retried(paise) == Append(Append(gwOrders, paise), paise)

\* razorpay_client.order.create(order_data): the gateway issues the next
\* order id for the amount.
GatewayCreate(paise) == Append(gwOrders, paise)

\* The submissions: a GET, or a POST of the donor fields and an amount, with
\* the gateway's side of it: whether order creation answers (gwUp).
DonateRequests ==
  {[method |-> "GET", donor |-> d, amount |-> NoAmount, gwUp |-> TRUE] :
     d \in Donors}
  \cup {[method |-> "POST", donor |-> d, amount |-> a, gwUp |-> up] :
          d \in Donors, a \in AmountInputs, up \in BOOLEAN}

\* Faulty variant of DonateOnException: the row was written before the gateway was
\* asked for an order, and stays when the call raises.
DonateOnException_RowFirst(r) ==
  Append(donations,
         NewDonation(Len(donations) + 1, 0, r.donor, FloatOf(r.amount).cents))

\* The table after the except branch of donate (the gateway call raised):
\* nothing was written before the call, so nothing is left behind.
DonateOnException(r) == donations

\* donate, in a run in which the gateway issues at most cap orders.
DonateUpTo(r, cap) ==
  LET a == r.amount
      base == [Response("donate", r.method, 200, "", "") EXCEPT !.amount = a]
  IN /\ UNCHANGED <<inflight, receipts>>
     /\ IF r.method # "POST"
        THEN /\ last' = [base EXCEPT !.status = "form"]
             /\ UNCHANGED <<donations, gwOrders>>
        ELSE CASE DonateValidate(a) = "reject" ->
                    /\ last' = [base EXCEPT !.http = 400, !.error = "Invalid Amount"]
                    /\ UNCHANGED <<donations, gwOrders>>
               [] DonateValidate(a) = "crash" ->
                    /\ last' = [base EXCEPT !.http = 500, !.error = "OverflowError"]
                    /\ UNCHANGED <<donations, gwOrders>>
               [] DonateValidate(a) = "pass" /\ ~r.gwUp ->
                    /\ last' = [base EXCEPT !.status = "form",
                                  !.error = "gateway error",
                                  !.gwCreate = "failed"]
                    /\ donations' = DonateOnException(r)
                    /\ UNCHANGED gwOrders
               [] DonateValidate(a) = "pass" /\ r.gwUp ->
                    LET oid == Len(gwOrders) + 1
                        pk == Len(donations) + 1
                    IN /\ Len(gwOrders) < cap
                       /\ gwOrders' = GatewayCreate(AmountPaise(a))
                       /\ donations' = Append(donations,
                             NewDonation(pk, oid, r.donor, FloatOf(a).cents))
                       /\ last' = [base EXCEPT !.status = "checkout",
                                     !.gwCreate = "ok", !.order = oid]

Donate(r) == DonateUpTo(r, MaxOrders)

\* -------------------------------------------------------- views.donate_page
\* donate_page, in a run in which the gateway issues at most cap orders.
DonatePageUpTo(r, cap) ==
  LET a == r.amount
      base == [Response("donate_page", r.method, 200, "", "") EXCEPT !.amount = a]
      p == DonatePageParse(a)
  IN /\ UNCHANGED <<inflight, receipts>>
     /\ IF r.method # "POST"
        THEN /\ last' = [base EXCEPT !.status = "form"]
             /\ UNCHANGED <<donations, gwOrders>>
        ELSE CASE p.r = "ValueError" ->
                    /\ last' = [base EXCEPT !.http = 400, !.error = "Invalid amount"]
                    /\ UNCHANGED <<donations, gwOrders>>
               [] p.r = "ok" /\ p.rupees < 10 ->
                    /\ last' = [base EXCEPT !.http = 400, !.error = "Minimum donation"]
                    /\ UNCHANGED <<donations, gwOrders>>
               [] p.r = "ok" /\ p.rupees >= 10 /\ ~r.gwUp ->
                    /\ last' = [base EXCEPT !.http = 500,
                                  !.error = "gateway error",
                                  !.gwCreate = "failed"]
                    /\ UNCHANGED <<donations, gwOrders>>
               [] p.r = "ok" /\ p.rupees >= 10 /\ r.gwUp ->
                    LET oid == Len(gwOrders) + 1
                        pk == Len(donations) + 1
                    IN /\ Len(gwOrders) < cap
                       /\ gwOrders' = GatewayCreate(p.rupees * 100)
                       /\ donations' = Append(donations,
                             NewLegacyDonation(pk, oid, p.rupees))
                       /\ last' = [base EXCEPT !.status = "checkout",
                                     !.gwCreate = "ok", !.order = oid]

DonatePage(r) == DonatePageUpTo(r, MaxOrders)

\* ------------------------------------------------------ the gateway client
\* The HMAC the gateway computes over "order_id|payment_id" with the shared
\* secret: a different value for every pair.
Hmac(oid, pid) == <<oid, pid>>
\* A signature the gateway computed for no pair.
Garbage == <<0, 0>>

\* Faulty variant of VerifySignature: a signature that is stored on a row,
\* because an earlier call passed with it, is accepted for any payment id.
VerifySignature_AcceptsStored(oid, pid, sig) ==
  \/ sig = Hmac(oid, pid)
  \/ \E i \in DOMAIN donations : donations[i].razorpay_signature = sig

\* razorpay_client.utility.verify_payment_signature(params): TRUE when the
\* call returns, FALSE when it raises SignatureVerificationError.
VerifySignature(oid, pid, sig) == sig = Hmac(oid, pid)

\* The payments the gateway holds, by payment id: razorpay_client.payment
\* .fetch(pid)['amount'], in paise.  Payment 1 is of Rs 10.00, payment 2 of
\* Rs 10.20.
GatewayPaymentAmount(pid) == IF pid = 1 THEN 1000 ELSE 1020

\* The verification requests: a non-POST request, a POST whose body is not
\* JSON, or a POST carrying an order id, a payment id and a signature (the
\* gateway's for this order and some payment id q, or garbage).  gwUp is the
\* gateway's side of the request: whether payment.fetch answers.
VerifyRequests ==
  {[method |-> "GET", body |-> "json", order |-> 0, payment |-> NoPayment,
    signature |-> Garbage, gwUp |-> TRUE],
   [method |-> "POST", body |-> "malformed", order |-> 0, payment |-> NoPayment,
    signature |-> Garbage, gwUp |-> TRUE]}
  \cup {[method |-> "POST", body |-> "json", order |-> o, payment |-> p,
         signature |-> IF q = NoPayment THEN Garbage ELSE Hmac(o, q),
         gwUp |-> up] :
          o \in OrderIdInputs, p \in PaymentIds,
          q \in PaymentIds \cup {NoPayment}, up \in BOOLEAN}

\* payment_callback makes no call over the network: its requests are the
\* ones above with the gateway up.
CallbackRequests == {r \in VerifyRequests : r.gwUp}

\* Donation.objects.get(<order id column> = oid): the rows that match.
RowsWithOrder(oid) ==
  {i \in DOMAIN donations : donations[i].razorpay_order_id = oid}

\* Faulty variant of Save: the status of the instance is written to every
\* row (an update with no filter on the primary key).
Save_EveryRow(d) ==
  [i \in DOMAIN donations |->
     IF i = d.id THEN d ELSE [donations[i] EXCEPT !.status = d.status]]

\* donation.save(): every column of the row with the instance's primary key
\* is written from the instance.
Save(d) == [donations EXCEPT ![d.id] = d]

\* The response of a verification view to request r.
VerifyResponse(view, r, http, status, error) ==
  [Response(view, r.method, http, status, error) EXCEPT
     !.order = r.order, !.payment = r.payment,
     !.sigOK = VerifySignature(r.order, r.payment, r.signature),
     !.sigCalls = IF r.method = "POST" /\ r.body = "json" THEN 1 ELSE 0]

\* --------------------------------------------------- views.payment_callback
\* Faulty variant of CallbackInvalidMethod: the method is not looked at and
\* the signature of the (empty) request is checked and found wrong.
CallbackInvalidMethod_ChecksSignature(r) ==
  [VerifyResponse("payment_callback", r, 200, "failed",
                  "Signature verification failed") EXCEPT !.sigCalls = 1]

\* The last statement of payment_callback, reached by every request that is
\* not a POST: nothing was parsed, verified or read.
CallbackInvalidMethod(r) ==
  VerifyResponse("payment_callback", r, 200, "error", "Invalid request method")

\* payment_callback up to Donation.objects.get: the method, the body, the
\* signature check and the read of the row.  Either the request is answered
\* at once (answered, response) or the handler holds the instance it read.
CallbackRead(r) ==
  LET rows == RowsWithOrder(r.order)
      none == NewLegacyDonation(0, 0, 0)
  IN CASE r.method # "POST" ->
            [answered |-> TRUE, donation |-> none,
             response |-> CallbackInvalidMethod(r)]
       [] r.method = "POST" /\ r.body # "json" ->
            [answered |-> TRUE, donation |-> none,
             response |-> VerifyResponse("payment_callback", r, 200, "error",
                                         "JSONDecodeError")]
       [] r.method = "POST" /\ r.body = "json" /\ rows = {} ->
            [answered |-> TRUE, donation |-> none,
             response |-> VerifyResponse("payment_callback", r, 200, "error",
                                         "DoesNotExist")]
       [] r.method = "POST" /\ r.body = "json" /\ rows # {} ->
            [answered |-> FALSE,
             donation |-> donations[CHOOSE i \in rows : TRUE],
             response |-> last]

\* Faulty variant of CallbackInstance: the payment id and the signature are
\* recorded before the signature is checked, on the failed branch too, and the
\* failed branch leaves the status as read.
CallbackInstance_RecordsFirst(d, r) ==
  IF VerifySignature(r.order, r.payment, r.signature)
  THEN [d EXCEPT !.transaction_id = r.payment,
                 !.razorpay_signature = r.signature,
                 !.status = "success"]
  ELSE [d EXCEPT !.transaction_id = r.payment,
                 !.razorpay_signature = r.signature]

\* The instance payment_callback saves: the one it read, with the fields the
\* branch taken assigns.
CallbackInstance(d, r) ==
  IF VerifySignature(r.order, r.payment, r.signature)
  THEN [d EXCEPT !.transaction_id = r.payment,
                 !.razorpay_signature = r.signature,
                 !.status = "success"]
  ELSE [d EXCEPT !.status = "failed"]

\* The JSON response after donation.save().
CallbackResponse(r) ==
  IF VerifySignature(r.order, r.payment, r.signature)
  THEN VerifyResponse("payment_callback", r, 200, "success", "")
  ELSE VerifyResponse("payment_callback", r, 200, "failed",
                      "Signature verification failed")

\* payment_callback as one step: a request served with no other request
\* between its read and its save.
PaymentCallback(r) ==
  LET o == CallbackRead(r)
  IN /\ \A w \in Workers : inflight[w] = Idle
     /\ UNCHANGED <<gwOrders, inflight, receipts>>
     /\ IF o.answered
        THEN /\ last' = o.response
             /\ UNCHANGED donations
        ELSE /\ donations' = Save(CallbackInstance(o.donation, r))
             /\ last' = CallbackResponse(r)

\* ----------------------------------------------------- views.verify_payment
\* Faulty variant of ExpectedAmountPaise: the stored amount is taken with its
\* fraction, Decimal(donation.amount) * 100.
ExpectedAmountPaise_WithFraction(d) == d.amount

\* expected_amount_paise = int(float(donation.amount)) * 100
ExpectedAmountPaise(d) == IntOfFloat(d.amount) * 100

\* Faulty variant of VerifyOnException: a failure of the gateway is answered
\* like a signature that failed the check.
VerifyOnException_AsSignatureFailure(r) ==
  [VerifyResponse("verify_payment", r, 400, "failure",
                  "Signature verification failed") EXCEPT !.gwFetch = "failed"]

\* except Exception as e in verify_payment, reached when payment.fetch raises:
\* status failure with the text of the exception, HTTP 500.
VerifyOnException(r) ==
  [VerifyResponse("verify_payment", r, 500, "failure", "gateway error")
     EXCEPT !.gwFetch = "failed"]

\* Faulty variant of VerifyOnSignatureError: the payment was fetched from the
\* gateway before the signature was checked.
VerifyOnSignatureError_AfterFetch(r) ==
  [VerifyResponse("verify_payment", r, 400, "failure",
                  "Signature verification failed") EXCEPT !.gwFetch = "ok"]

\* except razorpay.errors.SignatureVerificationError in verify_payment: the
\* check is the first statement of the try block, so nothing was fetched.
VerifyOnSignatureError(r) ==
  VerifyResponse("verify_payment", r, 400, "failure",
                 "Signature verification failed")

\* A response of verify_payment given after payment.fetch answered.
VerifyFetched(r, http, status, error) ==
  [VerifyResponse("verify_payment", r, http, status, error)
     EXCEPT !.gwFetch = "ok"]

\* verify_payment up to the amount comparison: the signature check,
\* payment.fetch, the read of the row and the comparison.  Every rejection
\* answers at once; a request that passed holds the instance it read.
VerifyRead(r) ==
  LET ok == VerifySignature(r.order, r.payment, r.signature)
      rows == RowsWithOrder(r.order)
      d == donations[CHOOSE i \in rows : TRUE]
      none == NewLegacyDonation(0, 0, 0)
  IN CASE r.method # "POST" ->
            [answered |-> TRUE, donation |-> none,
             response |-> VerifyResponse("verify_payment", r, 500, "",
                                         "no response")]
       [] r.method = "POST" /\ r.body # "json" ->
            [answered |-> TRUE, donation |-> none,
             response |-> VerifyResponse("verify_payment", r, 500, "",
                                         "JSONDecodeError")]
       [] r.method = "POST" /\ r.body = "json" /\ ~ok ->
            [answered |-> TRUE, donation |-> none,
             response |-> VerifyOnSignatureError(r)]
       [] r.method = "POST" /\ r.body = "json" /\ ok /\ ~r.gwUp ->
            [answered |-> TRUE, donation |-> none,
             response |-> VerifyOnException(r)]
       [] r.method = "POST" /\ r.body = "json" /\ ok /\ r.gwUp /\ rows = {} ->
            [answered |-> TRUE, donation |-> none,
             response |-> VerifyFetched(r, 400, "failure", "Order not found")]
       [] r.method = "POST" /\ r.body = "json" /\ ok /\ r.gwUp /\ rows # {}
            /\ GatewayPaymentAmount(r.payment) # ExpectedAmountPaise(d) ->
            [answered |-> TRUE, donation |-> none,
             response |-> VerifyFetched(r, 400, "failure", "Amount mismatch")]
       [] r.method = "POST" /\ r.body = "json" /\ ok /\ r.gwUp /\ rows # {}
            /\ GatewayPaymentAmount(r.payment) = ExpectedAmountPaise(d) ->
            [answered |-> FALSE, donation |-> d, response |-> last]

\* Faulty variant of VerifyInstance: the amount the gateway reports is
\* written over the stored one.
VerifyInstance_WritesPaidAmount(d, r) ==
  [d EXCEPT !.transaction_id = r.payment, !.paid = TRUE,
            !.amount = GatewayPaymentAmount(r.payment)]

\* donation.payment_id = ...; donation.paid = True
VerifyInstance(d, r) == [d EXCEPT !.transaction_id = r.payment, !.paid = TRUE]

\* verify_payment as one step.
VerifyPayment(r) ==
  LET o == VerifyRead(r)
  IN /\ \A w \in Workers : inflight[w] = Idle
     /\ UNCHANGED <<gwOrders, inflight, receipts>>
     /\ IF o.answered
        THEN /\ last' = o.response
             /\ UNCHANGED donations
        ELSE /\ donations' = Save(VerifyInstance(o.donation, r))
             /\ last' = VerifyFetched(r, 200, "success", "")

\* ------------------------------------------- requests served side by side
\* payment_callback in two steps, so that other requests run between its
\* read of the row and its save: worker w reads ...
CallbackBegin(w, r) ==
  LET o == CallbackRead(r)
  IN /\ inflight[w] = Idle
     /\ UNCHANGED <<donations, gwOrders, receipts>>
     /\ IF o.answered
        THEN /\ last' = o.response
             /\ UNCHANGED inflight
        ELSE /\ inflight' = [inflight EXCEPT ![w] =
                  [pc |-> "callback_save", request |-> r,
                   donation |-> o.donation]]
             /\ UNCHANGED last

\* ... and later saves the instance it read and answers.
CallbackSave(w) ==
  /\ inflight[w] # Idle
  /\ inflight[w].pc = "callback_save"
  /\ donations' = Save(CallbackInstance(inflight[w].donation, inflight[w].request))
  /\ last' = CallbackResponse(inflight[w].request)
  /\ inflight' = [inflight EXCEPT ![w] = Idle]
  /\ UNCHANGED <<gwOrders, receipts>>

\* verify_payment in the same two steps.
VerifyBegin(w, r) ==
  LET o == VerifyRead(r)
  IN /\ inflight[w] = Idle
     /\ UNCHANGED <<donations, gwOrders, receipts>>
     /\ IF o.answered
        THEN /\ last' = o.response
             /\ UNCHANGED inflight
        ELSE /\ inflight' = [inflight EXCEPT ![w] =
                  [pc |-> "verify_save", request |-> r,
                   donation |-> o.donation]]
             /\ UNCHANGED last

VerifySave(w) ==
  /\ inflight[w] # Idle
  /\ inflight[w].pc = "verify_save"
  /\ donations' = Save(VerifyInstance(inflight[w].donation, inflight[w].request))
  /\ last' = VerifyFetched(inflight[w].request, 200, "success", "")
  /\ inflight' = [inflight EXCEPT ![w] = Idle]
  /\ UNCHANGED <<gwOrders, receipts>>

Next ==
  \/ \E r \in DonateRequests : Donate(r)
  \/ \E r \in DonateRequests : DonatePage(r)
  \/ \E r \in CallbackRequests : PaymentCallback(r)
  \/ \E r \in VerifyRequests : VerifyPayment(r)

\* Every request served alone, from its first line to its response.
Spec == Init /\ [][Next]_vars

\* The requests of the side-by-side runs: submissions the gateway accepts,
\* and well-formed verification POSTs with the gateway up.
ConcurrentDonateRequests ==
  {r \in DonateRequests :
     r.method = "POST" /\ r.gwUp /\ DonateValidate(r.amount) = "pass"}
ConcurrentVerifyRequests ==
  {r \in VerifyRequests : r.method = "POST" /\ r.body = "json" /\ r.gwUp}

NextConcurrent ==
  \/ \E r \in ConcurrentDonateRequests : Donate(r)
  \/ \E w \in Workers, r \in ConcurrentVerifyRequests : CallbackBegin(w, r)
  \/ \E w \in Workers : CallbackSave(w)
  \/ \E w \in Workers, r \in ConcurrentVerifyRequests : VerifyBegin(w, r)
  \/ \E w \in Workers : VerifySave(w)

\* Verification requests served by up to MaxWorkers workers at a time.
SpecConcurrent == Init /\ [][NextConcurrent]_vars

\* ------------------------------------- email_service.send_donation_receipt
\* What a call meets outside the donation: whether the receipt template
\* renders and whether the mail transport accepts the message.
MailEnvs == [template : BOOLEAN, transport : BOOLEAN]

\* The try block of send_donation_receipt: the exception it raises, or the
\* return it reaches.  The template is rendered before the donor email is
\* looked at, and the message is sent last.
ReceiptTry(d, env) ==
  CASE ~env.template -> "TemplateDoesNotExist"
    [] env.template /\ d.donor_email = "" -> "return False"
    [] env.template /\ d.donor_email # "" /\ ~env.transport -> "SMTPException"
    [] env.template /\ d.donor_email # "" /\ env.transport -> "return True"

\* Faulty variant of ReceiptOnException: the exception is logged and raised
\* again.
ReceiptOnException_Reraises(d, e) ==
  [donation |-> d.id, returned |-> FALSE, sent |-> FALSE, raised |-> TRUE]

\* except Exception as e: the error is logged and False is returned.
ReceiptOnException(d, e) ==
  [donation |-> d.id, returned |-> FALSE, sent |-> FALSE, raised |-> FALSE]

\* send_donation_receipt(donation): what the caller gets back (returned, or
\* an exception: raised) and whether an email left (sent).
SendDonationReceipt(d, env) ==
  LET t == ReceiptTry(d, env)
  IN CASE t = "return True" ->
            [donation |-> d.id, returned |-> TRUE, sent |-> TRUE, raised |-> FALSE]
       [] t = "return False" ->
            [donation |-> d.id, returned |-> FALSE, sent |-> FALSE, raised |-> FALSE]
       [] OTHER -> ReceiptOnException(d, t)

\* A call of send_donation_receipt on the stored row i.
SendReceipt(i, env) ==
  /\ Len(receipts) < MaxReceipts
  /\ receipts' = Append(receipts, SendDonationReceipt(donations[i], env))
  /\ UNCHANGED <<donations, gwOrders, inflight, last>>

\* The verification requests of the runs that look at how rows are stored:
\* well-formed POSTs about the first order issued, with the gateway up.
StoreVerifyRequests == {r \in ConcurrentVerifyRequests : r.order = 1}

NextStore ==
  \/ \E r \in DonateRequests : DonateUpTo(r, MaxStored)
  \/ \E r \in DonateRequests : DonatePageUpTo(r, MaxStored)
  \/ \E r \in StoreVerifyRequests : PaymentCallback(r)
  \/ \E r \in StoreVerifyRequests : VerifyPayment(r)

\* Up to MaxStored orders created one after the other through either
\* donation view, the first of them verified any number of times.
SpecStore == Init /\ [][NextStore]_vars

\* The submissions of the runs over a range of amounts: every decimal
\* literal from 0.01 to MaxCents / 100 and every integer literal from 0 to
\* MaxRupees, beside the amounts of the other runs, with the gateway up or
\* down.
RangeAmountInputs ==
  AmountInputs
  \cup {[kind |-> "dec", val |-> c] : c \in 1..MaxCents}
  \cup {[kind |-> "int", val |-> n] : n \in 0..MaxRupees}
RangeDonateRequests ==
  {[method |-> "POST", donor |-> d, amount |-> a, gwUp |-> up] :
     d \in Donors, a \in RangeAmountInputs, up \in BOOLEAN}

NextAmounts ==
  \/ \E r \in RangeDonateRequests : DonateUpTo(r, 1)
  \/ \E r \in RangeDonateRequests : DonatePageUpTo(r, 1)

\* Submissions over a range of amounts to both donation views, up to the
\* first order the gateway issues.
SpecAmounts == Init /\ [][NextAmounts]_vars

\* ---------------------------------------------------- views.payment_success
\* request.GET.get('donation_id'): absent, a number (the ids of the rows a
\* run can hold and one more, which matches no row) or a text that is no
\* number.
SuccessPageRequests ==
  {[kind |-> "missing", id |-> 0], [kind |-> "text", id |-> 0]}
  \cup {[kind |-> "id", id |-> n] : n \in 1..(MaxOrders + 1)}

\* payment_success: the page is rendered with the donation of that id whose
\* status is success, or with none (no id given, DoesNotExist).  An id that
\* is no number makes Donation.objects.get raise ValueError, which the view
\* does not catch.
PaymentSuccess(q) ==
  LET base == [Response("payment_success", "GET", 200, "page", "")
                 EXCEPT !.lookup = q]
      found == {i \in DOMAIN donations :
                  donations[i].id = q.id /\ donations[i].status = "success"}
  IN /\ UNCHANGED <<donations, gwOrders, inflight, receipts>>
     /\ last' = CASE q.kind = "missing" -> base
                  [] q.kind = "text" ->
                       [base EXCEPT !.http = 500, !.status = "",
                                    !.error = "ValueError"]
                  [] q.kind = "id" /\ found = {} -> base
                  [] q.kind = "id" /\ found # {} ->
                       [base EXCEPT !.shown = donations[CHOOSE i \in found : TRUE].id]

NextPages ==
  \/ \E r \in DonateRequests : Donate(r)
  \/ \E r \in CallbackRequests : PaymentCallback(r)
  \/ \E q \in SuccessPageRequests : PaymentSuccess(q)

\* The thank-you page requested at any moment of the donate and
\* payment_callback flow.
SpecPages == Init /\ [][NextPages]_vars

NextReceipt ==
  \/ \E r \in ConcurrentDonateRequests : Donate(r)
  \/ \E r \in ConcurrentDonateRequests : DonatePage(r)
  \/ \E r \in StoreVerifyRequests : PaymentCallback(r)
  \/ \E i \in DOMAIN donations, env \in MailEnvs : SendReceipt(i, env)

\* send_donation_receipt called on stored rows, in any state of the row and
\* of the mail environment.
SpecReceipt == Init /\ [][NextReceipt]_vars

\* ================================================================ claims
\* The value of an amount literal in hundredths of a rupee, read off the
\* literal itself.
LiteralCents(a) == IF a.kind = "int" THEN 100 * a.val ELSE a.val

\* An amount that is <= 0 or is no number.
BadAmount(a) ==
  \/ a.kind \in {"missing", "text", "nan", "neginf"}
  \/ a.kind \in {"int", "dec"} /\ a.val <= 0

\* The rows of the order the last response is about.
LastRows == {i \in DOMAIN donations : donations[i].razorpay_order_id = last.order}

\* C1: a verification call (payment_callback or verify_payment) in which the
\* amount the gateway holds for the payment differs from the stored amount
\* of the order never ends in success.
C1_TamperedAmountNeverSucceeds ==
  (last.view \in {"payment_callback", "verify_payment"} /\ last.status = "success")
    => \A i \in LastRows : GatewayPaymentAmount(last.payment) = donations[i].amount

\* C2: a row is created Pending, and a row that is Success or Failed keeps
\* its status in every later step.
C2_StatusIsTerminal ==
  [][/\ \A i \in DOMAIN donations :
          donations[i].status \in {"success", "failed"}
            => donations'[i].status = donations[i].status
     /\ \A i \in DOMAIN donations' \ DOMAIN donations :
          donations'[i].status = "pending"]_vars

\* C3: no step changes the transaction id or the signature of a row that is
\* Success, or sends a receipt for it.
C3_SuccessIsIdempotent ==
  [][\A i \in DOMAIN donations :
       donations[i].status = "success"
         => /\ donations'[i].transaction_id = donations[i].transaction_id
            /\ donations'[i].razorpay_signature = donations[i].razorpay_signature
            /\ receipts' = receipts]_vars

\* C4: of the verification calls with valid signatures that run side by side
\* on one Pending order, exactly one applies the transition to Success: a
\* worker that read the order Pending saves it Success only while the row is
\* still Pending.
C4_OneTransitionPerOrder ==
  [][\A w \in Workers :
       (/\ inflight[w] # Idle
        /\ inflight[w].pc = "callback_save"
        /\ inflight'[w] = Idle
        /\ inflight[w].donation.status = "pending"
        /\ CallbackInstance(inflight[w].donation, inflight[w].request).status
             = "success")
         => donations[inflight[w].donation.id].status = "pending"]_vars

\* C5: a POST to donate whose amount is <= 0 or no number creates no row,
\* makes no order-creation call and is answered 400.
C5_BadAmountRejected ==
  [][(last'.view = "donate" /\ last'.method = "POST" /\ BadAmount(last'.amount))
       => /\ donations' = donations
          /\ gwOrders' = gwOrders
          /\ last'.gwCreate = "none"
          /\ last'.http = 400]_vars

C7_MinorUnitsExact ==
  (last.view = "donate" /\ last.gwCreate = "ok")
    => gwOrders[last.order] = LiteralCents(last.amount)

\* C8: when the order-creation call fails the caller is shown the error and
\* the table is as before; and every row a step adds carries an order id the
\* gateway issued in that same step.
C8_GatewayFailureLeavesNoRow ==
  [][/\ (last'.view \in {"donate", "donate_page"} /\ last'.gwCreate = "failed")
          => /\ donations' = donations
             /\ gwOrders' = gwOrders
             /\ last'.error # ""
             /\ last'.status # "checkout"
     /\ \A i \in DOMAIN donations' \ DOMAIN donations :
          /\ donations'[i].razorpay_order_id \in DOMAIN gwOrders' \ DOMAIN gwOrders
          /\ last'.gwCreate = "ok"]_vars

\* The gateway refused an order while the table already held a row.
C8_Witness ==
  /\ last.view = "donate" /\ last.gwCreate = "failed" /\ last.error # ""
  /\ Len(donations) = 1
  /\ donations[1].razorpay_order_id \in DOMAIN gwOrders

\* C9: a verification POST whose signature fails the check leaves the
\* matched order Failed and is answered with a failed outcome.
C9_BadSignatureMarksFailed ==
  (/\ last.view \in {"payment_callback", "verify_payment"}
   /\ last.method = "POST" /\ last.order # 0 /\ ~last.sigOK)
    => /\ \A i \in LastRows : donations[i].status = "failed"
       /\ LastRows # {} => last.status \in {"failed", "failure"}

\* C10: a verify_payment POST with a valid signature, for a payment whose
\* amount at the gateway differs from the stored amount of the order, leaves
\* the order Failed and is answered "Amount mismatch".
C10_AmountMismatchMarksFailed ==
  (/\ last.view = "verify_payment" /\ last.method = "POST" /\ last.sigOK
   /\ last.error # "gateway error")
    => \A i \in LastRows :
         GatewayPaymentAmount(last.payment) # donations[i].amount
           => /\ donations[i].status = "failed"
              /\ last.error = "Amount mismatch"

\* A verification view answered the POST of an order id, a payment id and a
\* signature.
VerificationAnswered(l) ==
  l.view \in {"payment_callback", "verify_payment"} /\ l.method = "POST" /\ l.order # 0

\* An order nothing has been verified for: status pending, not marked paid.
IsPending(d) == d.status = "pending" /\ ~d.paid

\* C11: a verification call (payment_callback or verify_payment) with a valid
\* signature, for a Pending order whose stored amount equals the amount the
\* gateway holds for the payment, is answered success and leaves the order
\* Success (marked paid) with the transaction id of the request, and with
\* its signature where the view has a signature column to write.
C11_MatchingVerificationSucceeds ==
  [][\A i \in DOMAIN donations :
       (/\ VerificationAnswered(last') /\ last'.sigOK
        /\ last'.error # "gateway error"
        /\ donations[i].razorpay_order_id = last'.order
        /\ IsPending(donations[i])
        /\ GatewayPaymentAmount(last'.payment) = donations[i].amount)
         => /\ last'.status = "success"
            /\ donations'[i].status = "success" \/ donations'[i].paid
            /\ donations'[i].transaction_id = last'.payment
            /\ last'.view = "payment_callback"
                 => donations'[i].razorpay_signature
                      = Hmac(last'.order, last'.payment)]_vars

\* C12: every step that moves an order to Success hands that order to
\* send_donation_receipt, and every order handed to it is Success.
C12_SuccessSendsReceipt ==
  [][/\ \A i \in DOMAIN donations :
          (donations[i].status # "success" /\ donations'[i].status = "success")
            => /\ Len(receipts') = Len(receipts) + 1
               /\ receipts'[Len(receipts')].donation = i
     /\ \A k \in DOMAIN receipts' \ DOMAIN receipts :
          /\ receipts'[k].donation \in DOMAIN donations'
          /\ donations'[receipts'[k].donation].status = "success"]_vars

\* C13: a verification POST whose order id matches no row is answered with
\* the not-found error of its view, whatever its signature, and changes no
\* row.
C13_UnknownOrderReportsNotFound ==
  [][(VerificationAnswered(last') /\ RowsWithOrder(last'.order) = {})
       => /\ donations' = donations
          /\ last'.error \in {"DoesNotExist", "Order not found"}
          /\ last'.status \in {"error", "failure"}]_vars

\* C14: in every state a Pending order has a blank transaction id and a blank
\* signature, so these fields are filled only by a step that takes the order
\* out of Pending.
C14_PendingHasNoPayment ==
  \A i \in DOMAIN donations :
    IsPending(donations[i])
      => /\ donations[i].transaction_id = NoPayment
         /\ donations[i].razorpay_signature = NoSignature

\* A worker saved a failed verification over an order another worker had
\* read while it was Pending, and that worker has still to save.
C14_Witness ==
  /\ \E i \in DOMAIN donations : donations[i].status = "failed"
  /\ \E w \in Workers :
       /\ inflight[w] # Idle
       /\ IsPending(inflight[w].donation)

\* C15: no step changes the amount, the donor name, email or phone, or the
\* gateway order id of a row that exists.
C15_CreationFieldsImmutable ==
  [][\A i \in DOMAIN donations :
       /\ i \in DOMAIN donations'
       /\ donations'[i].amount = donations[i].amount
       /\ donations'[i].donor_name = donations[i].donor_name
       /\ donations'[i].donor_email = donations[i].donor_email
       /\ donations'[i].donor_phone = donations[i].donor_phone
       /\ donations'[i].razorpay_order_id = donations[i].razorpay_order_id]_vars

\* verify_payment marked paid an order that went through donate with a
\* fractional amount, and the row has the submitted amount and donor.
C15_Witness ==
  /\ last.view = "verify_payment" /\ last.status = "success"
  /\ \E i \in LastRows :
       /\ donations[i].paid
       /\ donations[i].amount = 1020
       /\ donations[i].donor_name = "Asha"

\* C16: no two rows have the same gateway order id, and no step changes the
\* gateway order id of a row.  (The gateway issues a new id with every order;
\* the column is declared unique.)
C16_OrderIdUniqueAndFixed ==
  [][/\ \A i, j \in DOMAIN donations' :
          i # j => donations'[i].razorpay_order_id # donations'[j].razorpay_order_id
     /\ \A i \in DOMAIN donations :
          /\ i \in DOMAIN donations'
          /\ donations'[i].razorpay_order_id = donations[i].razorpay_order_id]_vars

\* Two orders are stored, one created by each donation view, and the first
\* has been verified.
C16_Witness ==
  /\ Len(donations) = 2
  /\ donations[1].status = "success"
  /\ \E i, j \in DOMAIN donations :
       donations[i].donor_name = "Donor" /\ donations[j].donor_name # "Donor"

\* C17: every request to a verification view, whatever its method, body,
\* signature, amount or order, is answered with a JSON body whose status is
\* success, failed or error.
C17_VerificationAnswersStructured ==
  last.view \in {"payment_callback", "verify_payment"}
    => last.status \in {"success", "failed", "error"}

\* C18: when the gateway fails during a verification (payment.fetch raises;
\* payment_callback makes no call to the gateway), no row changes and the
\* caller gets a server error that is neither the answer to a failed
\* signature nor the answer to an amount mismatch, and is not success.
C18_GatewayFailureDuringVerification ==
  [][/\ (last'.view = "verify_payment" /\ last'.gwFetch = "failed")
          => /\ donations' = donations
             /\ last'.http = 500
             /\ last'.error # ""
             /\ last'.error \notin {"Signature verification failed",
                                    "Amount mismatch", "Order not found"}
             /\ last'.status # "success"
     /\ last'.view = "payment_callback" => last'.gwFetch = "none"]_vars

\* payment.fetch failed while the order of the request was stored, Pending.
C18_Witness ==
  /\ last.view = "verify_payment" /\ last.gwFetch = "failed"
  /\ LastRows # {}
  /\ \A i \in LastRows : IsPending(donations[i])

\* C19: no call of send_donation_receipt raises: whatever fails (the donor
\* email is missing, the template does not render, the transport refuses the
\* message) the call returns False; it returns True exactly when the email
\* was sent; and it changes no row.
C19_ReceiptFailureNeverPropagates ==
  [][/\ \A k \in DOMAIN receipts' :
          /\ ~receipts'[k].raised
          /\ receipts'[k].returned <=> receipts'[k].sent
          /\ donations'[receipts'[k].donation].donor_email = ""
               => ~receipts'[k].returned
     /\ receipts' # receipts => donations' = donations]_vars

\* A call on a row with a donor email returned False (the template or the
\* transport failed) and nothing was sent.
C19_Witness ==
  \E k \in DOMAIN receipts :
    /\ ~receipts[k].returned /\ ~receipts[k].sent
    /\ donations[receipts[k].donation].donor_email # ""
    /\ donations[receipts[k].donation].status = "success"

C21_OtherOrdersUntouched ==
  [][\A i \in DOMAIN donations :
       donations[i].razorpay_order_id # last'.order
         => /\ i \in DOMAIN donations'
            /\ donations'[i] = donations[i]]_vars

\* Two orders are stored; the first was verified and is Success, the second
\* is as it was created.
C21_Witness ==
  /\ Len(donations) = 2
  /\ VerificationAnswered(last) /\ last.order = donations[1].razorpay_order_id
  /\ donations[1].status = "success"
  /\ IsPending(donations[2]) /\ donations[2].transaction_id = NoPayment

\* C22: no call to the gateway is made twice in one request: a submission
\* makes the gateway issue at most one order, none when it is rejected and
\* none after the failure of its one call; a verification request calls the
\* signature check at most once.
C22_NoGatewayRetry ==
  [][/\ Len(gwOrders') <= Len(gwOrders) + 1
     /\ last'.gwCreate = "ok" => Len(gwOrders') = Len(gwOrders) + 1
     /\ last'.gwCreate \in {"none", "failed"} => gwOrders' = gwOrders
     /\ last'.sigCalls <= 1
     /\ last'.view \in {"donate", "donate_page"} => last'.sigCalls = 0]_vars

\* The one order-creation call of a submission failed while the gateway
\* had issued no order yet, and none was issued by a second attempt.
C22_Witness ==
  /\ last.view \in {"donate", "donate_page"} /\ last.gwCreate = "failed"
  /\ gwOrders = <<>>

\* C23: in verify_payment the signature check comes first: a request whose
\* signature fails is answered without a payment fetch, without the answer
\* of an order lookup and without a write; and the amounts are compared only
\* in a request whose signature passed.
C23_SignatureCheckedFirst ==
  [][(last'.view = "verify_payment" /\ VerificationAnswered(last'))
       => /\ ~last'.sigOK
               => /\ last'.gwFetch = "none"
                  /\ last'.error = "Signature verification failed"
                  /\ donations' = donations
          /\ last'.error \in {"Amount mismatch", "Order not found"}
               => last'.sigOK /\ last'.gwFetch = "ok"
          /\ last'.status = "success" => last'.sigOK /\ last'.gwFetch = "ok"]_vars

\* verify_payment refused a signature for an order that is stored and that
\* the payment's amount would have matched.
C23_Witness ==
  /\ last.view = "verify_payment" /\ VerificationAnswered(last) /\ ~last.sigOK
  /\ \E i \in LastRows :
       GatewayPaymentAmount(last.payment) = ExpectedAmountPaise(donations[i])

\* C24: the paid flag of a row becomes True only in a verify_payment request
\* about its order whose signature passed and whose payment, as fetched from
\* the gateway, is of the whole rupees of the stored amount times 100; a
\* verify_payment request that is not answered success changes no row.
C24_PaidOnlyAfterBothChecks ==
  [][/\ \A i \in DOMAIN donations :
          (~donations[i].paid /\ donations'[i].paid)
            => /\ last'.view = "verify_payment" /\ last'.status = "success"
               /\ last'.sigOK /\ last'.gwFetch = "ok"
               /\ last'.order = donations[i].razorpay_order_id
               /\ GatewayPaymentAmount(last'.payment)
                    = IntOfFloat(donations[i].amount) * 100
     /\ (last'.view = "verify_payment" /\ last'.status # "success")
          => donations' = donations]_vars

\* verify_payment marked an order of Rs 10 paid with the payment of Rs 10.
C24_Witness ==
  /\ last.view = "verify_payment" /\ last.status = "success"
  /\ \E i \in LastRows :
       /\ donations[i].paid /\ donations[i].amount = 1000
       /\ donations[i].transaction_id = last.payment
       /\ GatewayPaymentAmount(last.payment) = 1000

\* C25: the save of payment_callback's signature-failure branch sets the
\* status of the order to Failed and leaves its transaction id and its
\* signature as they were.
C25_FailurePathWritesOnlyStatus ==
  [][\A w \in Workers :
       (/\ inflight[w] # Idle
        /\ inflight[w].pc = "callback_save"
        /\ inflight'[w] = Idle
        /\ ~VerifySignature(inflight[w].request.order, inflight[w].request.payment,
                            inflight[w].request.signature))
         => LET i == inflight[w].donation.id
            IN /\ donations'[i].status = "failed"
               /\ donations'[i].transaction_id = donations[i].transaction_id
               /\ donations'[i].razorpay_signature
                    = donations[i].razorpay_signature]_vars

\* C26: donate accepts an amount only when its whole rupees are at least 1:
\* a POST of a positive amount below 1 is answered 400 and reaches neither
\* the gateway nor the table, and every order the gateway was asked for is of
\* at least 100 paise.
C26_DonateMinimumOneRupee ==
  [][/\ (/\ last'.view = "donate" /\ last'.method = "POST"
         /\ last'.amount.kind = "dec"
         /\ last'.amount.val > 0 /\ last'.amount.val < 100)
          => /\ last'.http = 400
             /\ last'.gwCreate = "none"
             /\ gwOrders' = gwOrders
             /\ donations' = donations
     /\ last'.gwCreate = "ok"
          => /\ LiteralCents(last'.amount) >= 100
             /\ \A k \in DOMAIN gwOrders' : gwOrders'[k] >= 100]_vars

\* The gateway holds an order of exactly 100 paise, issued for "1.00", and a
\* later submission of "0.99" was answered 400.
C26_Witness ==
  /\ gwOrders = <<100>>
  /\ Len(donations) = 1 /\ donations[1].amount = 100
  /\ last.view = "donate" /\ last.http = 400
  /\ last.amount = [kind |-> "dec", val |-> 99]

\* C29: a POST to donate_page whose amount is no integer literal, or is an
\* integer below 10 (an absent amount counts as 0), is answered 400, and
\* neither the gateway nor the table is touched.
C29_DonatePageRejectsBelowMinimum ==
  [][(/\ last'.view = "donate_page" /\ last'.method = "POST"
      /\ \/ last'.amount.kind # "int"
         \/ last'.amount.val < 10)
       => /\ last'.http = 400
          /\ last'.error \in {"Invalid amount", "Minimum donation"}
          /\ last'.gwCreate = "none"
          /\ gwOrders' = gwOrders
          /\ donations' = donations]_vars

\* donate_page refused Rs 9 after it had taken an order of Rs 10.
C29_Witness ==
  /\ last.view = "donate_page" /\ last.http = 400
  /\ last.amount = [kind |-> "int", val |-> 9]
  /\ Len(donations) = 1 /\ donations[1].donor_name = "Donor"
  /\ gwOrders = <<1000>>

\* C27: payment_success shows a donation only when that donation is Success;
\* for a donation_id that names no Success row (the row is Pending or Failed,
\* or no row has that id) the page is rendered, with no donation.
C27_SuccessPageShowsOnlySuccess ==
  [][last'.view = "payment_success"
       => /\ donations' = donations
          /\ last'.shown # 0
               => /\ last'.shown \in DOMAIN donations
                  /\ donations[last'.shown].status = "success"
                  /\ last'.lookup = [kind |-> "id", id |-> last'.shown]
          /\ (/\ last'.lookup.kind # "missing"
              /\ ~\E i \in DOMAIN donations :
                    /\ last'.lookup = [kind |-> "id", id |-> donations[i].id]
                    /\ donations[i].status = "success")
               => /\ last'.http = 200
                  /\ last'.status = "page"
                  /\ last'.shown = 0]_vars

\* C28: a request to payment_callback that is not a POST is answered status
\* error, 'Invalid request method'; the signature check is not called, the
\* gateway is not called, and no row changes.
C28_CallbackRejectsOtherMethods ==
  [][(last'.view = "payment_callback" /\ last'.method # "POST")
       => /\ last'.status = "error"
          /\ last'.error = "Invalid request method"
          /\ last'.sigCalls = 0
          /\ last'.gwFetch = "none" /\ last'.gwCreate = "none"
          /\ gwOrders' = gwOrders
          /\ donations' = donations]_vars

\* payment_callback answered a GET while an order was stored, Pending.
C28_Witness ==
  /\ last.view = "payment_callback" /\ last.method = "GET"
  /\ last.error = "Invalid request method"
  /\ Len(donations) = 1 /\ IsPending(donations[1])
====
